---- MODULE Spec2Model ----
(***************************************************************************)
(* Bounty escrow contract (contracts/bounty_escrow/contracts/escrow):      *)
(* init, lock_funds, release_funds, refund, get_escrow_info, get_balance.  *)
(* Storage is the contract's instance store (Admin, Token,                 *)
(* ReentrancyGuard) and persistent store (Escrow(bounty_id)); custody is   *)
(* the contract's balance in the configured token contract.  Every         *)
(* invocation is one atomic step of the ledger: a handler that returns     *)
(* Err or traps has all the writes of that invocation discarded.           *)
(***************************************************************************)
EXTENDS Integers, Sequences, FiniteSets, TLC

\* ------------------------------------------------------------------ bounds
MaxBounty == 2
MaxAmount == 1
MaxTime == 2
MaxBatch == 2

\* ---------------------------------------------------------------- universe
\* Accounts: A and B are the addresses init may name as admin, D is the
\* address that deposits (the one the token was minted to), B the address
\* releases pay to; any of them may be the caller of an invocation.
Users == {"A", "B", "D"}
Depositors == {"D"}
Contributors == {"B"}
Contract == "escrow"
Accounts == Users \cup {Contract}
Tokens == {"T1", "T2"}
Configs == {[admin |-> "A", token |-> "T1"], [admin |-> "B", token |-> "T2"]}
BountyIds == 1..MaxBounty
Amounts == (-1)..MaxAmount
Deadlines == 1..MaxTime
InitialBalance == MaxAmount + 1
NoId == MaxBounty + 1
\* What a depositor holds at the start: of token T1 enough for more than one
\* lock, of token T2 for one lock of the largest amount.
minted(tok) == IF tok = "T2" THEN MaxAmount ELSE InitialBalance

VARIABLES instance, persistent, balances, now, payouts,
          program_data, program_token

escrow_vars == <<instance, persistent, balances, now, payouts>>
program_vars == <<program_data, program_token>>
vars == <<instance, persistent, balances, now, payouts, program_data, program_token>>

\* ------------------------------------------------------------ data model
Locked == "Locked"
Released == "Released"
Refunded == "Refunded"
EscrowStatus == {Locked, Released, Refunded}

Escrow == [depositor : Users, amount : Int, status : EscrowStatus, deadline : Nat]

Admin == <<"Admin", 0>>
Token == <<"Token", 0>>
ReentrancyGuard == <<"ReentrancyGuard", 0>>
EscrowKey(bounty_id) == <<"Escrow", bounty_id>>

\* ------------------------------------------------------- storage interface
has(store, key) == key \in DOMAIN store
get(store, key) == store[key]
set(store, key, val) == [k \in DOMAIN store \cup {key} |-> IF k = key THEN val ELSE store[k]]
remove(store, key) == [k \in DOMAIN store \ {key} |-> store[k]]

\* -------------------------------------------------- in-flight invocation
\* The storage and token ledger as one invocation sees and changes them,
\* with the keys it has written and the transfers it has made so far.
\* `seen` lists the persistent storage as the token contract finds it each
\* time the invocation calls its transfer.
\* `callback` is what the token contract will do when the invocation calls
\* its transfer: nothing but the transfer (NoCall), or first a call back into
\* this contract.
NoCall ==
    [op |-> "none", caller |-> "none", bounty_id |-> NoId, depositor |-> "none",
     amount |-> MaxAmount, deadline |-> MaxTime, contributor |-> "none", timestamp |-> MaxTime]
Frame(inst, pers, bal) ==
    [instance |-> inst, persistent |-> pers, balances |-> bal,
     writes |-> {}, transfers |-> <<>>, seen |-> <<>>, callback |-> NoCall]

instance_set(h, key, val) ==
    [h EXCEPT !.instance = set(h.instance, key, val), !.writes = @ \cup {key}]
instance_remove(h, key) ==
    [h EXCEPT !.instance = remove(h.instance, key), !.writes = @ \cup {key}]
persistent_set(h, key, val) ==
    [h EXCEPT !.persistent = set(h.persistent, key, val), !.writes = @ \cup {key}]

\* token::Client::transfer: traps unless `from` holds at least `amount`.
can_transfer(h, tok, from, amount) ==
    amount >= 0 /\ h.balances[tok][from] >= amount
transfer(h, tok, from, to, amount) ==
    [h EXCEPT !.balances[tok] =
                 [a \in Accounts |->
                    IF from = to THEN @[a]
                    ELSE IF a = from THEN @[a] - amount
                    ELSE IF a = to THEN @[a] + amount
                    ELSE @[a]],
              !.transfers = Append(@, <<from, to, amount>>)]

\* Outcomes of an invocation.
OkOut == "Ok"
AuthTrap == "Trap: authorization failed"
ReentrancyTrap == "Panic: Reentrancy detected"
TransferTrap == "Trap: transfer failed"
UnwrapTrap == "Panic: unwrap on None"
Errors == {"AlreadyInitialized", "NotInitialized", "BountyExists", "BountyNotFound",
           "FundsNotLocked", "DeadlineNotPassed", "Unauthorized", "InvalidAmount",
           "InvalidDeadline"}
Unit == "()"
Result(h, out, ret) == [st |-> h, out |-> out, ret |-> ret]

\* client.transfer(from, to, amount) made by a handler. The token contract
\* is outside this program: it moves the value, and before doing so it may
\* invoke an entry point of this contract again, in the frame of the
\* invocation that is still running; a nested call that fails makes the
\* transfer fail with it.
RECURSIVE nested(_)
move(h, tok, from, to, amount) ==
    IF can_transfer(h, tok, from, amount)
    THEN Result(transfer(h, tok, from, to, amount), OkOut, Unit)
    ELSE Result(h, TransferTrap, Unit)
client_transfer_ignores_failure(h, tok, from, to, amount) ==
    IF can_transfer(h, tok, from, amount)
    THEN Result(transfer(h, tok, from, to, amount), OkOut, Unit)
    ELSE Result(h, OkOut, Unit)
client_transfer(h, tok, from, to, amount) ==
    LET called == [h EXCEPT !.seen = Append(@, h.persistent)] IN
    IF called.callback.op = "none" THEN move(called, tok, from, to, amount)
    ELSE LET n == nested(called) IN
         IF n.out # OkOut THEN Result(called, n.out, Unit)
         ELSE move(n.st, tok, from, to, amount)

\* require_auth: the address must have authorized this invocation.
require_auth_skipped(caller, addr) == TRUE
require_auth(caller, addr) == caller = addr

\* Every mutating handler begins by testing and setting the guard.
guard_is_set_ignored(h) == FALSE
guard_is_set(h) == has(h.instance, ReentrancyGuard)
guard_enter(h) == instance_set(h, ReentrancyGuard, TRUE)
guard_exit_wrong_key(h) == instance_remove(h, Token)
guard_exit(h) == instance_remove(h, ReentrancyGuard)

\* ------------------------------------------------------------------- init
init_overwrites(h) == FALSE
init_already(h) == has(h.instance, Admin)

init(h, admin, token) ==
    IF init_already(h) THEN Result(h, "AlreadyInitialized", Unit)
    ELSE LET h1 == instance_set(h, Admin, admin)
             h2 == instance_set(h1, Token, token)
         IN  Result(h2, OkOut, Unit)

\* ------------------------------------------------------------- lock_funds
invalid_amount(amount) == amount <= 0
invalid_deadline_allows_now(deadline, timestamp) == deadline < timestamp
invalid_deadline(deadline, timestamp) == deadline <= timestamp
bounty_exists_unchecked(h, bounty_id) == FALSE
bounty_exists(h, bounty_id) == has(h.persistent, EscrowKey(bounty_id))

new_escrow_wrong_deadline(depositor, amount, deadline) ==
    [depositor |-> depositor, amount |-> amount, status |-> Locked, deadline |-> deadline + 1]
new_escrow_double_amount(depositor, amount, deadline) ==
    [depositor |-> depositor, amount |-> amount + amount, status |-> Locked, deadline |-> deadline]
new_escrow(depositor, amount, deadline) ==
    [depositor |-> depositor, amount |-> amount, status |-> Locked, deadline |-> deadline]

lock_funds_exit_keeps_guard(h) == h
lock_funds_exit(h) == guard_exit(h)

lock_funds(h, caller, timestamp, depositor, bounty_id, amount, deadline) ==
    IF ~require_auth(caller, depositor) THEN Result(h, AuthTrap, Unit)
    ELSE IF guard_is_set(h) THEN Result(h, ReentrancyTrap, Unit)
    ELSE LET h1 == guard_enter(h) IN
    IF invalid_amount(amount) THEN Result(h1, "InvalidAmount", Unit)
    ELSE IF invalid_deadline(deadline, timestamp) THEN Result(h1, "InvalidDeadline", Unit)
    ELSE IF ~has(h1.instance, Admin) THEN Result(h1, "NotInitialized", Unit)
    ELSE IF bounty_exists(h1, bounty_id) THEN Result(h1, "BountyExists", Unit)
    ELSE IF ~has(h1.instance, Token) THEN Result(h1, UnwrapTrap, Unit)
    ELSE LET token_addr == get(h1.instance, Token)
             t == client_transfer(h1, token_addr, depositor, Contract, amount)
         IN
    IF t.out # OkOut THEN Result(t.st, t.out, Unit)
    ELSE LET escrow == new_escrow(depositor, amount, deadline)
             h3 == persistent_set(t.st, EscrowKey(bounty_id), escrow)
         IN  Result(lock_funds_exit(h3), OkOut, Unit)

\* ---------------------------------------------------------- release_funds
release_not_locked_unchecked(escrow) == FALSE
release_not_locked(escrow) == escrow.status # Locked
release_update_keeps_locked(escrow) == escrow
release_update(escrow) == [escrow EXCEPT !.status = Released]

release_funds(h, caller, bounty_id, contributor) ==
    IF guard_is_set(h) THEN Result(h, ReentrancyTrap, Unit)
    ELSE LET h1 == guard_enter(h) IN
    IF ~has(h1.instance, Admin) THEN Result(h1, "NotInitialized", Unit)
    ELSE LET admin == get(h1.instance, Admin) IN
    IF ~require_auth(caller, admin) THEN Result(h1, AuthTrap, Unit)
    ELSE IF ~has(h1.persistent, EscrowKey(bounty_id)) THEN Result(h1, "BountyNotFound", Unit)
    ELSE LET escrow == get(h1.persistent, EscrowKey(bounty_id)) IN
    IF release_not_locked(escrow) THEN Result(h1, "FundsNotLocked", Unit)
    ELSE IF ~has(h1.instance, Token) THEN Result(h1, UnwrapTrap, Unit)
    ELSE LET token_addr == get(h1.instance, Token)
             h2 == persistent_set(h1, EscrowKey(bounty_id), release_update(escrow))
             t == client_transfer(h2, token_addr, Contract, contributor, escrow.amount)
         IN
    IF t.out # OkOut THEN Result(t.st, t.out, Unit)
    ELSE Result(guard_exit(t.st), OkOut, Unit)

\* ----------------------------------------------------------------- refund
refund_not_locked_unchecked(escrow) == FALSE
refund_not_locked(escrow) == escrow.status # Locked
deadline_not_passed_exclusive(timestamp, escrow) == timestamp <= escrow.deadline
deadline_never_passes(timestamp, escrow) == TRUE
deadline_not_passed(timestamp, escrow) == timestamp < escrow.deadline
refund_update_clears_amount(escrow) == [escrow EXCEPT !.status = Refunded, !.amount = 0]
refund_update(escrow) == [escrow EXCEPT !.status = Refunded]

refund_store_late(h, bounty_id, escrow) == h
refund_store(h, bounty_id, escrow) ==
    persistent_set(h, EscrowKey(bounty_id), refund_update(escrow))

refund_to_contract(escrow) == Contract
refund_to(escrow) == escrow.depositor

refund(h, timestamp, bounty_id) ==
    IF guard_is_set(h) THEN Result(h, ReentrancyTrap, Unit)
    ELSE LET h1 == guard_enter(h) IN
    IF ~has(h1.persistent, EscrowKey(bounty_id)) THEN Result(h1, "BountyNotFound", Unit)
    ELSE LET escrow == get(h1.persistent, EscrowKey(bounty_id)) IN
    IF refund_not_locked(escrow) THEN Result(h1, "FundsNotLocked", Unit)
    ELSE IF deadline_not_passed(timestamp, escrow) THEN Result(h1, "DeadlineNotPassed", Unit)
    ELSE IF ~has(h1.instance, Token) THEN Result(h1, UnwrapTrap, Unit)
    ELSE LET token_addr == get(h1.instance, Token)
             h2 == refund_store(h1, bounty_id, escrow)
             t == client_transfer(h2, token_addr, Contract, refund_to(escrow), escrow.amount)
         IN
    IF t.out # OkOut THEN Result(t.st, t.out, Unit)
    ELSE Result(guard_exit(t.st), OkOut, Unit)

\* ------------------------------------------------------------------ views
get_escrow_info_locked_only(h, bounty_id) ==
    IF ~has(h.persistent, EscrowKey(bounty_id)) THEN Result(h, "BountyNotFound", Unit)
    ELSE IF get(h.persistent, EscrowKey(bounty_id)).status # Locked
         THEN Result(h, "BountyNotFound", Unit)
    ELSE Result(h, OkOut, get(h.persistent, EscrowKey(bounty_id)))
get_escrow_info_default(h, bounty_id) ==
    IF ~has(h.persistent, EscrowKey(bounty_id))
    THEN Result(h, OkOut, [depositor |-> Contract, amount |-> 0, status |-> Refunded, deadline |-> 0])
    ELSE Result(h, OkOut, get(h.persistent, EscrowKey(bounty_id)))
get_escrow_info(h, bounty_id) ==
    IF ~has(h.persistent, EscrowKey(bounty_id)) THEN Result(h, "BountyNotFound", Unit)
    ELSE Result(h, OkOut, get(h.persistent, EscrowKey(bounty_id)))

get_balance(h) ==
    IF ~has(h.instance, Token) THEN Result(h, "NotInitialized", Unit)
    ELSE Result(h, OkOut, h.balances[get(h.instance, Token)][Contract])

\* ----------------------------------------------------------- program escrow
\* The program escrow contract (contracts/program-escrow) keeps one running
\* balance for a program instead of a record per bounty. One program is
\* modelled, initialized as the tests set it up, with its own token.
Recipients == {"R1", "R2"}
ProgramContract == "program-escrow"
ProgramAccounts == Recipients \cup {ProgramContract}
ProgramAmounts == (-1)..MaxAmount
FundsCap == MaxAmount + MaxBatch + 2

SeqsUpTo(S, n) == UNION {[1..k -> S] : k \in 0..n}
RECURSIVE SumSeq(_)
SumSeq(q) == IF q = << >> THEN 0 ELSE Head(q) + SumSeq(Tail(q))

\* ProgramData after initialize_program: nothing locked yet.
setup_program == [total_funds |-> 0, remaining_balance |-> 0]

\* The program's storage and its token's ledger as one invocation sees them.
ProgramFrame(data, tok) == [data |-> data, token |-> tok, transfers |-> << >>]

AmountPanic == "Amount must be greater than zero"
InsufficientPanic == "Insufficient balance"
LengthPanic == "Recipients and amounts vectors must have the same length"
EmptyPanic == "Cannot process empty batch"

\* token transfer out of the program contract: traps unless it holds the
\* amount.
program_transfer(h, to, amount) ==
    IF h.token[ProgramContract] >= amount
    THEN Result([h EXCEPT !.token[ProgramContract] = @ - amount,
                          !.token[to] = @ + amount,
                          !.transfers = Append(@, <<to, amount>>)], OkOut, Unit)
    ELSE Result(h, TransferTrap, Unit)

\* lock_program_funds accounts for funds that are expected to be in the
\* contract already; it makes no transfer and does not look at the balance.
lock_amount_unchecked(amount) == FALSE
lock_amount_invalid(amount) == amount <= 0
lock_program_update_remaining_only(data, amount) ==
    [data EXCEPT !.remaining_balance = @ + amount]
lock_program_update(data, amount) ==
    [data EXCEPT !.total_funds = @ + amount, !.remaining_balance = @ + amount]

lock_program_funds(h, amount) ==
    IF lock_amount_invalid(amount) THEN Result(h, AmountPanic, Unit)
    ELSE Result([h EXCEPT !.data = lock_program_update(h.data, amount)], OkOut, Unit)

payout_amount_unchecked(amount) == FALSE
payout_amount_invalid(amount) == amount <= 0
exceeds_remaining_unchecked(data, total) == FALSE
exceeds_remaining(data, total) == total > data.remaining_balance
payout_update_forgotten(data, total) == data
payout_update(data, total) == [data EXCEPT !.remaining_balance = @ - total]

single_payout(h, recipient, amount) ==
    IF payout_amount_invalid(amount) THEN Result(h, AmountPanic, Unit)
    ELSE IF exceeds_remaining(h.data, amount) THEN Result(h, InsufficientPanic, Unit)
    ELSE LET t == program_transfer(h, recipient, amount) IN
    IF t.out # OkOut THEN Result(t.st, t.out, Unit)
    ELSE Result([t.st EXCEPT !.data = payout_update(t.st.data, amount)], OkOut, Unit)

lengths_differ_fewer_amounts_only(recipients, amounts) == Len(recipients) > Len(amounts)
lengths_differ(recipients, amounts) == Len(recipients) # Len(amounts)

\* The transfers of a batch, made one after the other from entry i on.
RECURSIVE pay_each(_, _, _, _)
RECURSIVE pay_each_skips_failures(_, _, _, _)
pay_each_skips_failures(h, recipients, amounts, i) ==
    IF i > Len(recipients) THEN Result(h, OkOut, Unit)
    ELSE pay_each_skips_failures(program_transfer(h, recipients[i], amounts[i]).st,
                                 recipients, amounts, i + 1)
pay_each(h, recipients, amounts, i) ==
    IF i > Len(recipients) THEN Result(h, OkOut, Unit)
    ELSE LET t == program_transfer(h, recipients[i], amounts[i]) IN
         IF t.out # OkOut THEN Result(t.st, t.out, Unit)
         ELSE pay_each(t.st, recipients, amounts, i + 1)

batch_payout(h, recipients, amounts) ==
    IF lengths_differ(recipients, amounts) THEN Result(h, LengthPanic, Unit)
    ELSE IF Len(recipients) = 0 THEN Result(h, EmptyPanic, Unit)
    ELSE IF \E i \in DOMAIN amounts : payout_amount_invalid(amounts[i])
         THEN Result(h, AmountPanic, Unit)
    ELSE IF exceeds_remaining(h.data, SumSeq(amounts)) THEN Result(h, InsufficientPanic, Unit)
    ELSE LET t == pay_each(h, recipients, amounts, 1) IN
    IF t.out # OkOut THEN Result(t.st, t.out, Unit)
    ELSE Result([t.st EXCEPT !.data = payout_update(t.st.data, SumSeq(amounts))], OkOut, Unit)

get_program_info(h) == Result(h, OkOut, h.data)
get_remaining_balance(h) == Result(h, OkOut, h.data.remaining_balance)

\* ------------------------------------------------- the ledger's invocation
\* The state an invocation leaves behind: what the handler wrote when it
\* returned Ok, the state before the invocation otherwise.
committed_keeps_failed_writes(h, r) == r.st
committed(h, r) == IF r.out = OkOut THEN r.st ELSE h

Current == Frame(instance, persistent, balances)

\* Number of transfers out of custody made by a committed invocation.
paid_out(h, r) ==
    Cardinality({i \in DOMAIN committed(h, r).transfers :
                    committed(h, r).transfers[i][1] = Contract})

Invoke(id, result) ==
    \E r \in {result} : \E c \in {committed(Current, r)} :
    /\ instance' = c.instance
    /\ persistent' = c.persistent
    /\ balances' = c.balances
    /\ payouts' = [i \in BountyIds |-> IF i = id THEN payouts[i] + paid_out(Current, r)
                                       ELSE payouts[i]]
    /\ UNCHANGED <<now, program_vars>>

Init ==
    /\ instance = << >>
    /\ persistent = << >>
    /\ balances = [t \in Tokens |-> [a \in Accounts |-> IF a \in Depositors THEN minted(t) ELSE 0]]
    /\ now = 0
    /\ payouts = [id \in BountyIds |-> 0]
    /\ program_data = setup_program
    /\ program_token = [a \in ProgramAccounts |-> 0]

InitCall ==
    \E cfg \in Configs :
        Invoke(NoId, init(Current, cfg.admin, cfg.token))

LockFunds ==
    \E caller \in Users, depositor \in Depositors, bounty_id \in BountyIds,
       amount \in Amounts, deadline \in Deadlines :
        Invoke(bounty_id, lock_funds(Current, caller, now, depositor, bounty_id, amount, deadline))

ReleaseFunds ==
    \E caller \in Users, bounty_id \in BountyIds, contributor \in Contributors :
        Invoke(bounty_id, release_funds(Current, caller, bounty_id, contributor))

\* refund asks for no authorization, so its outcome does not depend on who
\* the caller is.
Refund ==
    \E bounty_id \in BountyIds :
        Invoke(bounty_id, refund(Current, now, bounty_id))

GetEscrowInfo ==
    \E bounty_id \in BountyIds :
        Invoke(NoId, get_escrow_info(Current, bounty_id))

GetBalance ==
    Invoke(NoId, get_balance(Current))

\* The ledger clock (env.ledger().timestamp()) only moves forward.
AdvanceClock ==
    /\ now < MaxTime
    /\ now' = now + 1
    /\ UNCHANGED <<instance, persistent, balances, payouts, program_vars>>

Next ==
    \/ InitCall
    \/ LockFunds
    \/ ReleaseFunds
    \/ Refund
    \/ GetEscrowInfo
    \/ GetBalance
    \/ AdvanceClock

Spec == Init /\ [][Next]_vars

\* The ledger clock keeps advancing, and a refund of each id that would
\* succeed is eventually invoked by somebody; nothing is assumed of the admin.
RefundOf(bounty_id) == Invoke(bounty_id, refund(Current, now, bounty_id))

SpecFair ==
    /\ Init /\ [][Next]_vars
    /\ WF_vars(AdvanceClock)
    /\ \A bounty_id \in BountyIds : WF_vars(RefundOf(bounty_id))

\* ------------------------------------------------- program escrow invocations
ProgramCurrent == ProgramFrame(program_data, program_token)

\* All the tokens in existence: what the contract and the recipients hold.
RECURSIVE Held(_)
Held(accounts) ==
    IF accounts = {} THEN 0
    ELSE LET a == CHOOSE x \in accounts : TRUE
         IN  program_token[a] + Held(accounts \ {a})
Supply == Held(ProgramAccounts)

ProgramInvoke(result) ==
    \E r \in {result} : \E c \in {committed(ProgramCurrent, r)} :
    /\ program_data' = c.data
    /\ program_token' = c.token
    /\ UNCHANGED escrow_vars

\* Funds reach the program contract from outside, before they are locked
\* (the tests mint to the contract address).
MintToProgram ==
    \E amount \in 1..MaxAmount :
        /\ Supply + amount <= FundsCap
        /\ program_token' = [program_token EXCEPT ![ProgramContract] = @ + amount]
        /\ UNCHANGED <<program_data, escrow_vars>>

LockProgramFunds ==
    \E amount \in ProgramAmounts :
        /\ program_data.total_funds + amount <= FundsCap
        /\ ProgramInvoke(lock_program_funds(ProgramCurrent, amount))

SinglePayout ==
    \E recipient \in Recipients, amount \in ProgramAmounts :
        ProgramInvoke(single_payout(ProgramCurrent, recipient, amount))

BatchPayout ==
    \E recipients \in SeqsUpTo(Recipients, MaxBatch), amounts \in SeqsUpTo(ProgramAmounts, MaxBatch) :
        ProgramInvoke(batch_payout(ProgramCurrent, recipients, amounts))

GetProgramInfo == ProgramInvoke(get_program_info(ProgramCurrent))

GetRemainingBalance == ProgramInvoke(get_remaining_balance(ProgramCurrent))

NextProgram ==
    \/ MintToProgram
    \/ LockProgramFunds
    \/ SinglePayout
    \/ BatchPayout
    \/ GetProgramInfo
    \/ GetRemainingBalance

SpecProgram == Init /\ [][NextProgram]_vars

\* ------------------------------------------- a token contract that calls back
\* The calls back into this contract that the token contract may make from
\* inside a transfer, and the invocation frame in which it will make one.
NestedOps == {"lock_funds", "release_funds", "refund"}
NestedCalls ==
    [op : NestedOps, caller : Users, bounty_id : BountyIds, depositor : Depositors,
     amount : {MaxAmount}, deadline : {MaxTime}, contributor : Contributors,
     timestamp : {now}]

nested(h) ==
    LET call == h.callback
        g == [h EXCEPT !.callback = NoCall]
    IN  CASE call.op = "lock_funds" ->
                lock_funds(g, call.caller, call.timestamp, call.depositor, call.bounty_id,
                           call.amount, call.deadline)
          [] call.op = "release_funds" ->
                release_funds(g, call.caller, call.bounty_id, call.contributor)
          [] call.op = "refund" ->
                refund(g, call.timestamp, call.bounty_id)

Reentered(call) == [Current EXCEPT !.callback = call]

\* The invocation gets as far as its transfer call, where the token contract
\* takes control.
reaches_transfer(r) == r.out \in {OkOut, TransferTrap}

LockFundsReentered ==
    \E caller \in Users, depositor \in Depositors, bounty_id \in BountyIds,
       amount \in Amounts, deadline \in Deadlines :
        /\ reaches_transfer(lock_funds(Current, caller, now, depositor, bounty_id, amount, deadline))
        /\ \E call \in NestedCalls :
              Invoke(bounty_id, lock_funds(Reentered(call), caller, now, depositor, bounty_id,
                                           amount, deadline))

ReleaseFundsReentered ==
    \E caller \in Users, bounty_id \in BountyIds, contributor \in Contributors :
        /\ reaches_transfer(release_funds(Current, caller, bounty_id, contributor))
        /\ \E call \in NestedCalls :
              Invoke(bounty_id, release_funds(Reentered(call), caller, bounty_id, contributor))

RefundReentered ==
    \E bounty_id \in BountyIds :
        /\ reaches_transfer(refund(Current, now, bounty_id))
        /\ \E call \in NestedCalls :
              Invoke(bounty_id, refund(Reentered(call), now, bounty_id))

NextReentrant ==
    \/ InitCall
    \/ LockFunds
    \/ ReleaseFunds
    \/ Refund
    \/ GetEscrowInfo
    \/ GetBalance
    \/ AdvanceClock
    \/ LockFundsReentered
    \/ ReleaseFundsReentered
    \/ RefundReentered

SpecReentrant == Init /\ [][NextReentrant]_vars

\* ------------------------------------------------------------ vocabulary
K(id) == EscrowKey(id)
Exists(id) == has(persistent, K(id))
Rec(id) == get(persistent, K(id))
Initialized == has(instance, Admin)
StoredAdmin == get(instance, Admin)
StoredToken == get(instance, Token)
Custody == balances[StoredToken][Contract]
Resolved(id) == Exists(id) /\ Rec(id).status \in {Released, Refunded}
Unchanged(r) ==
    /\ committed(Current, r).instance = instance
    /\ committed(Current, r).persistent = persistent
    /\ committed(Current, r).balances = balances

\* Every invocation of a state-changing entry point that can be made in the
\* current state, over all the inputs of the model.
EveryRelease(id, P(_, _)) ==
    \A caller \in Users, contributor \in Contributors :
        \A r \in {release_funds(Current, caller, id, contributor)} : P(caller, r)
EveryLock(id, P(_, _, _, _, _)) ==
    \A caller \in Users, depositor \in Depositors, amount \in Amounts, deadline \in Deadlines :
        \A r \in {lock_funds(Current, caller, now, depositor, id, amount, deadline)} :
            P(caller, depositor, amount, deadline, r)
EveryInvocation(P(_)) ==
    /\ \A cfg \in Configs : \A r \in {init(Current, cfg.admin, cfg.token)} : P(r)
    /\ \A id \in BountyIds :
          /\ EveryLock(id, LAMBDA c, d, a, dl, r : P(r))
          /\ EveryRelease(id, LAMBDA c, r : P(r))
          /\ \A r \in {refund(Current, now, id)} : P(r)

\* ---------------------------------------------------------------------- C1
\* C1 (as stated): once a release_funds or refund has succeeded on an id,
\* every later release_funds or refund on that id, by any caller, fails with
\* FundsNotLocked, and the amount leaves custody at most once.
C1_LaterCallsFundsNotLocked ==
    \A id \in BountyIds :
        /\ payouts[id] <= 1
        /\ payouts[id] >= 1 =>
              /\ refund(Current, now, id).out = "FundsNotLocked"
              /\ EveryRelease(id, LAMBDA c, r : r.out = "FundsNotLocked")

\* C1 (amended): at most one release_funds or refund ever succeeds on an id
\* and its amount leaves custody at most once; after that success every
\* refund, and every release_funds authorized by the stored admin, fails with
\* FundsNotLocked, and a release_funds not authorized by the admin is
\* aborted by the admin authorization check.
C1_AtMostOnePayout ==
    \A id \in BountyIds :
        /\ payouts[id] <= 1
        /\ payouts[id] >= 1 =>
              /\ refund(Current, now, id).out = "FundsNotLocked"
              /\ EveryRelease(id, LAMBDA c, r :
                    r.out = IF c = StoredAdmin THEN "FundsNotLocked" ELSE AuthTrap)
C1_Witness ==
    \E id \in BountyIds : payouts[id] = 1 /\ Custody > 0 /\ now >= Rec(id).deadline

\* ---------------------------------------------------------------------- C2
\* C2: a record's status changes only Locked -> Released, by a successful
\* release_funds, or Locked -> Refunded, by a successful refund; a Released
\* or Refunded record is never written again by any invocation.
C2_StatusStep ==
    \A id \in BountyIds :
        Exists(id) =>
           /\ has(persistent', K(id))
           /\ Resolved(id) => get(persistent', K(id)) = Rec(id)
           /\ get(persistent', K(id)).status # Rec(id).status =>
                 /\ Rec(id).status = Locked
                 /\ \/ /\ get(persistent', K(id)).status = Released
                       /\ \E c \in Users, b \in Contributors :
                             /\ release_funds(Current, c, id, b).out = OkOut
                             /\ release_funds(Current, c, id, b).st.persistent = persistent'
                    \/ /\ get(persistent', K(id)).status = Refunded
                       /\ refund(Current, now, id).out = OkOut
                       /\ refund(Current, now, id).st.persistent = persistent'
C2_TerminalNeverWritten ==
    \A id \in BountyIds :
        Resolved(id) => EveryInvocation(LAMBDA r : K(id) \notin r.st.writes)
C2_StatusTransitions ==
    []C2_TerminalNeverWritten /\ [][persistent' = persistent \/ C2_StatusStep]_vars
C2_Witness ==
    \E i, j \in BountyIds : /\ Exists(i) /\ Rec(i).status = Released
                            /\ Exists(j) /\ Rec(j).status = Refunded

\* ---------------------------------------------------------------------- C3
\* C3: a successful release_funds(id) or refund(id) changes only the status
\* field of the record of id; its depositor, amount and deadline, every other
\* record, and the stored admin and token are as before.
StatusSet(id, status) ==
    [k \in DOMAIN persistent |->
        IF k = K(id)
        THEN [depositor |-> persistent[k].depositor, amount |-> persistent[k].amount,
              status |-> status, deadline |-> persistent[k].deadline]
        ELSE persistent[k]]
C3_OnlyStatusChanges ==
    \A id \in BountyIds :
        /\ EveryRelease(id, LAMBDA c, r :
              r.out = OkOut =>
                 /\ committed(Current, r).persistent = StatusSet(id, Released)
                 /\ committed(Current, r).instance = instance)
        /\ refund(Current, now, id).out = OkOut =>
              /\ committed(Current, refund(Current, now, id)).persistent = StatusSet(id, Refunded)
              /\ committed(Current, refund(Current, now, id)).instance = instance
C3_Witness ==
    \E i, j \in BountyIds :
        /\ i # j /\ Exists(i) /\ Exists(j)
        /\ Rec(i).status = Locked /\ now >= Rec(i).deadline /\ Rec(j).status = Released

\* ---------------------------------------------------------------------- C4
\* C4: on an initialized contract, lock_funds authorized by the depositor,
\* for an unused id, amount > 0, deadline > now and a depositor holding the
\* amount, succeeds, and get_escrow_info(id) right after it returns a Locked
\* record with exactly the given depositor, amount and deadline.
C4_LockThenInfo ==
    Initialized =>
      \A id \in BountyIds :
        EveryLock(id, LAMBDA c, d, a, dl, r :
            (/\ c = d /\ ~Exists(id) /\ a > 0 /\ dl > now
             /\ balances[StoredToken][d] >= a) =>
               /\ r.out = OkOut
               /\ get_escrow_info(committed(Current, r), id).out = OkOut
               /\ get_escrow_info(committed(Current, r), id).ret =
                     [depositor |-> d, amount |-> a, status |-> Locked, deadline |-> dl])
C4_Witness ==
    /\ Initialized /\ now < MaxTime
    /\ \E id \in BountyIds : ~Exists(id)
    /\ \E d \in Depositors : balances[StoredToken][d] > 0
    /\ \E id \in BountyIds : Exists(id) /\ Rec(id).status = Locked

\* ---------------------------------------------------------------------- C5
\* C5: lock_funds on an id that already has a record (in any status), with
\* otherwise valid inputs, fails with BountyExists, transfers nothing and
\* leaves everything unchanged; no step ever replaces the depositor, amount
\* or deadline of an existing record or removes it.
C5_DuplicateRejected ==
    \A id \in BountyIds :
        Exists(id) =>
          EveryLock(id, LAMBDA c, d, a, dl, r :
              (c = d /\ a > 0 /\ dl > now) =>
                 /\ r.out = "BountyExists"
                 /\ r.st.transfers = << >>
                 /\ Unchanged(r))
C5_NoOverwriteStep ==
    \A id \in BountyIds :
        Exists(id) =>
           /\ has(persistent', K(id))
           /\ get(persistent', K(id)).depositor = Rec(id).depositor
           /\ get(persistent', K(id)).amount = Rec(id).amount
           /\ get(persistent', K(id)).deadline = Rec(id).deadline
C5_OneRecordPerId ==
    []C5_DuplicateRejected /\ [][persistent' = persistent \/ C5_NoOverwriteStep]_vars
C5_Witness ==
    /\ now < MaxTime
    /\ \E id \in BountyIds :
          /\ Resolved(id)
          /\ balances[StoredToken][Rec(id).depositor] > 0

C7_NonAdminUnauthorized ==
    Initialized =>
      \A id \in BountyIds :
        EveryRelease(id, LAMBDA c, r :
            c # StoredAdmin =>
               /\ r.out = "Unauthorized"
               /\ r.st.writes = {}
               /\ r.st.transfers = << >>)

\* ---------------------------------------------------------------------- C8
\* C8 (as stated): release_funds on a record that is Released or Refunded
\* fails with FundsNotLocked whoever the caller is, and transfers nothing.
C8_AnyCallerFundsNotLocked ==
    \A id \in BountyIds :
        Resolved(id) =>
          EveryRelease(id, LAMBDA c, r :
              r.out = "FundsNotLocked" /\ r.st.transfers = << >>)

\* C8 (amended): release_funds on a record that is Released or Refunded
\* never succeeds and transfers nothing, whoever the caller is; authorized
\* by the stored admin it fails with FundsNotLocked, and otherwise it is
\* aborted by the admin authorization check, which precedes the status check.
C8_ResolvedNeverReleased ==
    \A id \in BountyIds :
        Resolved(id) =>
          EveryRelease(id, LAMBDA c, r :
              /\ r.out = IF c = StoredAdmin THEN "FundsNotLocked" ELSE AuthTrap
              /\ r.st.transfers = << >>
              /\ Unchanged(r))
C8_Witness ==
    \E i, j \in BountyIds :
        /\ Resolved(i) /\ Exists(j) /\ Rec(j).status = Locked
        /\ Custody >= Rec(i).amount

\* ---------------------------------------------------------------------- C9
\* C9: init succeeds only on the first call: once a configuration is stored,
\* every init call fails with AlreadyInitialized and changes nothing, and no
\* step of any operation changes the stored admin or token.
C9_LaterInitFails ==
    Initialized =>
        /\ has(instance, Token)
        /\ \A cfg \in Configs :
              /\ init(Current, cfg.admin, cfg.token).out = "AlreadyInitialized"
              /\ Unchanged(init(Current, cfg.admin, cfg.token))
C9_ConfigStep ==
    Initialized =>
        /\ has(instance', Admin) /\ has(instance', Token)
        /\ get(instance', Admin) = StoredAdmin
        /\ get(instance', Token) = StoredToken
C9_InitOnce == []C9_LaterInitFails /\ [][instance' = instance \/ C9_ConfigStep]_vars
C9_Witness == Initialized /\ \E id \in BountyIds : Resolved(id)

\* --------------------------------------------------------------------- C10
\* C10: at every invocation boundary the reentrancy guard is absent from
\* storage, whether the invocation ended with success, a typed error or a
\* trap; so no top-level invocation is rejected with 'Reentrancy detected'.
C10_GuardNeverLeaks ==
    /\ ~has(instance, ReentrancyGuard)
    /\ EveryInvocation(LAMBDA r :
          /\ r.out # ReentrancyTrap
          /\ ~has(committed(Current, r).instance, ReentrancyGuard))
C10_Witness ==
    /\ \E id \in BountyIds : Exists(id) /\ Rec(id).status = Locked
    /\ \E id \in BountyIds : Resolved(id)
    /\ ~has(instance, ReentrancyGuard)

\* --------------------------------------------------------------------- C11
\* Every invocation of lock_funds, release_funds or refund that gets as far
\* as its transfer call, with every call back the token contract can make
\* from inside that transfer.
EveryReentry(P(_, _)) ==
    \A id \in BountyIds :
        /\ \A caller \in Users, depositor \in Depositors, amount \in Amounts, deadline \in Deadlines :
              reaches_transfer(lock_funds(Current, caller, now, depositor, id, amount, deadline))
              => \A call \in NestedCalls :
                    \A r \in {lock_funds(Reentered(call), caller, now, depositor, id, amount, deadline)} : P(call, r)
        /\ \A caller \in Users, contributor \in Contributors :
              reaches_transfer(release_funds(Current, caller, id, contributor))
              => \A call \in NestedCalls :
                    \A r \in {release_funds(Reentered(call), caller, id, contributor)} :
                        P(call, r)
        /\ reaches_transfer(refund(Current, now, id))
              => \A call \in NestedCalls :
                    \A r \in {refund(Reentered(call), now, id)} : P(call, r)

C12_LockAtomic ==
    \A id \in BountyIds :
        EveryLock(id, LAMBDA c, d, a, dl, r :
            \A s \in {committed(Current, r)} :
               /\ \/ /\ r.out = OkOut
                     /\ ~Exists(id)
                     /\ has(s.persistent, K(id))
                     /\ get(s.persistent, K(id)).status = Locked
                     /\ get(s.persistent, K(id)).amount = a
                     /\ s.balances = [balances EXCEPT ![StoredToken][d] = @ - a,
                                                      ![StoredToken][Contract] = @ + a]
                     /\ r.st.transfers = << <<d, Contract, a>> >>
                  \/ /\ r.out # OkOut
                     /\ s.persistent = persistent
                     /\ s.balances = balances
               /\ (Initialized /\ balances[StoredToken][d] < a) =>
                     /\ r.out # OkOut
                     /\ s.persistent = persistent
                     /\ s.balances = balances)

\* A lock that passes every check and then fails in the transfer.
C12_Witness ==
    \E id \in BountyIds, d \in Depositors, a \in Amounts, dl \in Deadlines :
        /\ ~Exists(id)
        /\ Initialized /\ balances[StoredToken][d] < a
        /\ lock_funds(Current, d, now, d, id, a, dl).out = TransferTrap
        /\ \E other \in BountyIds : Exists(other) /\ Rec(other).status = Locked

\* --------------------------------------------------------------------- C13
\* C13 (as stated): init, lock_funds, release_funds and refund detect every
\* precondition violation before any state mutation of the invocation, and
\* return it as a typed error that leaves the configuration, the records, the
\* custody balance and the guard as before the call.
C13_DetectedBeforeAnyWrite ==
    EveryInvocation(LAMBDA r :
        r.out \in Errors => (r.st.writes = {} /\ Unchanged(r)))

\* C13 (amended): a typed error of init, lock_funds, release_funds or refund
\* leaves the configuration, the records, the balances and the guard exactly
\* as before the call. The invocation may have written before it detected
\* the violation, but only the guard flag, and it has transferred nothing; a
\* failure that is an abort and not a typed error leaves no trace either.
C13_ErrorsLeaveNoTrace ==
    EveryInvocation(LAMBDA r :
        /\ r.out \in Errors =>
              /\ Unchanged(r)
              /\ ~guard_is_set(committed(Current, r))
              /\ r.st.writes \subseteq {ReentrancyGuard}
              /\ r.st.transfers = << >>
        /\ (r.out # OkOut /\ r.out \notin Errors) =>
              /\ r.out \in {AuthTrap, TransferTrap}
              /\ Unchanged(r)
              /\ ~guard_is_set(committed(Current, r)))

\* A refund that comes too early: the guard was written before the deadline
\* check answered DeadlineNotPassed, while funds are in custody.
C13_Witness ==
    \E id \in BountyIds :
        /\ Exists(id) /\ Rec(id).status = Locked /\ now < Rec(id).deadline
        /\ refund(Current, now, id).out = "DeadlineNotPassed"
        /\ ReentrancyGuard \in refund(Current, now, id).st.writes
        /\ Custody > 0

\* --------------------------------------------------------------------- C14
\* C14: refund asks for no authentication (the handler takes no caller and
\* makes no require_auth call, so its outcome is the same for every caller).
\* For a Locked record whose deadline the clock has reached, refund succeeds,
\* sets the status to Refunded and makes one transfer, of exactly the
\* record's amount, from custody to the record's depositor; no other balance
\* changes.
C14_RefundByAnyone ==
    \A id \in BountyIds :
        (Exists(id) /\ Rec(id).status = Locked /\ now >= Rec(id).deadline) =>
            \A r \in {refund(Current, now, id)} :
                /\ r.out = OkOut
                /\ r.st.persistent = set(persistent, K(id), [Rec(id) EXCEPT !.status = Refunded])
                /\ r.st.transfers = << <<Contract, Rec(id).depositor, Rec(id).amount>> >>
                /\ r.st.balances =
                      [balances EXCEPT ![StoredToken][Contract] = @ - Rec(id).amount,
                                       ![StoredToken][Rec(id).depositor] = @ + Rec(id).amount]
                /\ r.st.instance = instance

\* A refund is due on one record while custody also holds the amount of
\* another, and the admin is not the depositor.
C14_Witness ==
    \E id \in BountyIds :
        /\ Exists(id) /\ Rec(id).status = Locked /\ now >= Rec(id).deadline
        /\ Custody > Rec(id).amount
        /\ StoredAdmin # Rec(id).depositor
        /\ refund(Current, now, id).out = OkOut

\* --------------------------------------------------------------------- C15
\* C15: value is never stranded. For every Locked record, once the clock has
\* reached its deadline a refund of it succeeds, whatever the admin does or
\* fails to do; so, when the clock keeps advancing and a refund that can
\* succeed is eventually attempted, every Locked record eventually becomes
\* Released or Refunded.
C15_RefundEnabled ==
    \A id \in BountyIds :
        (Exists(id) /\ Rec(id).status = Locked /\ now >= Rec(id).deadline) =>
            /\ refund(Current, now, id).out = OkOut
            /\ ENABLED <<RefundOf(id)>>_vars
C15_NeverStranded ==
    /\ []C15_RefundEnabled
    /\ \A id \in BountyIds : (Exists(id) /\ Rec(id).status = Locked) ~> Resolved(id)

\* The clock has run out on a record that the admin never released.
C15_Witness ==
    \E id \in BountyIds :
        /\ Exists(id) /\ Rec(id).status = Locked
        /\ now = MaxTime /\ Rec(id).deadline < now
        /\ payouts[id] = 0

\* --------------------------------------------------------------------- C16
\* C16: release_funds(id, beneficiary) invoked by the stored admin on a Locked
\* record succeeds whatever the clock reads, sets the status to Released and
\* transfers exactly the record's amount from custody to the beneficiary: the
\* beneficiary's balance grows by the amount, custody shrinks by it, and no
\* other balance changes.
C16_AdminRelease ==
    \A id \in BountyIds :
        (Initialized /\ Exists(id) /\ Rec(id).status = Locked) =>
            \A contributor \in Contributors :
                \A r \in {release_funds(Current, StoredAdmin, id, contributor)} :
                    /\ r.out = OkOut
                    /\ r.st.persistent =
                          set(persistent, K(id), [Rec(id) EXCEPT !.status = Released])
                    /\ r.st.transfers = << <<Contract, contributor, Rec(id).amount>> >>
                    /\ r.st.balances =
                          [balances EXCEPT ![StoredToken][Contract] = @ - Rec(id).amount,
                                           ![StoredToken][contributor] = @ + Rec(id).amount]
                    /\ r.st.instance = instance

\* Records the admin can release both before and after their deadline, the
\* beneficiary being neither the admin nor the depositor of the first.
C16_Witness ==
    \E id \in BountyIds, late \in BountyIds, contributor \in Contributors :
        /\ Initialized
        /\ Exists(id) /\ Rec(id).status = Locked /\ now < Rec(id).deadline
        /\ Exists(late) /\ Rec(late).status = Locked /\ now >= Rec(late).deadline
        /\ contributor # StoredAdmin /\ contributor # Rec(id).depositor
        /\ release_funds(Current, StoredAdmin, id, contributor).out = OkOut

\* --------------------------------------------------------------------- C17
\* C17: lock_funds, authorized by its depositor on an initialized contract,
\* validates its inputs. An amount <= 0 fails with InvalidAmount; with a
\* positive amount, a deadline <= the clock reading (the reading itself
\* included) fails with InvalidDeadline; neither creates a record or
\* transfers anything. The deadline clock + 1 is accepted. Hence a lock
\* succeeds only with amount > 0 and deadline > clock, and every stored
\* record has a positive amount.
C17_LockValidation ==
    \A id \in BountyIds :
        /\ Exists(id) => Rec(id).amount > 0
        /\ EveryLock(id, LAMBDA c, d, a, dl, r :
              (Initialized /\ require_auth(c, d)) =>
                 /\ a <= 0 =>
                       /\ r.out = "InvalidAmount"
                       /\ Unchanged(r)
                       /\ r.st.transfers = << >> /\ K(id) \notin r.st.writes
                 /\ (a > 0 /\ dl <= now) =>
                       /\ r.out = "InvalidDeadline"
                       /\ Unchanged(r)
                       /\ r.st.transfers = << >> /\ K(id) \notin r.st.writes
                 /\ (a > 0 /\ dl = now + 1 /\ ~Exists(id) /\ balances[StoredToken][d] >= a) =>
                       r.out = OkOut
                 /\ r.out = OkOut => (a > 0 /\ dl > now))

\* The clock has moved and a lock is possible: the deadline equal to the
\* clock is refused, the next one is accepted, and a non-positive amount is
\* refused.
C17_Witness ==
    \E id \in BountyIds, d \in Depositors :
        /\ Initialized /\ ~Exists(id) /\ now >= 1 /\ now + 1 \in Deadlines
        /\ lock_funds(Current, d, now, d, id, MaxAmount, now).out = "InvalidDeadline"
        /\ lock_funds(Current, d, now, d, id, MaxAmount, now + 1).out = OkOut
        /\ lock_funds(Current, d, now, d, id, 0, now + 1).out = "InvalidAmount"

\* --------------------------------------------------------------------- C18
\* C18: lock_funds moves funds only with the depositor's own authorization.
\* A lock_funds(depositor, ...) whose caller is not authenticated as the
\* depositor is aborted by the authorization check whatever its other inputs
\* are, before anything is written, with no transfer and no record; so a
\* lock that succeeds, and creates a record, was authorized by the record's
\* depositor.
C18_DepositorAuthorizes ==
    \A id \in BountyIds :
        EveryLock(id, LAMBDA c, d, a, dl, r :
            /\ c # d =>
                  /\ r.out = AuthTrap
                  /\ r.st.writes = {} /\ r.st.transfers = << >>
                  /\ Unchanged(r)
            /\ r.out = OkOut =>
                  /\ c = d
                  /\ get(r.st.persistent, K(id)).depositor = c)

\* A lock that succeeds for the depositor and is tried by somebody else.
C18_Witness ==
    \E id \in BountyIds, d \in Depositors, c \in Users, dl \in Deadlines :
        /\ c # d
        /\ lock_funds(Current, d, now, d, id, MaxAmount, dl).out = OkOut
        /\ lock_funds(Current, c, now, d, id, MaxAmount, dl).out = AuthTrap

\* --------------------------------------------------------------------- C19
\* C19: records are never deleted. For an id that has a record, that is, for
\* which a lock_funds has succeeded, get_escrow_info succeeds and returns the
\* record, and after every step, the release or the refund of that id
\* included, it still succeeds and returns a record of the same depositor,
\* amount and deadline.
C19_InfoSucceeds ==
    \A id \in BountyIds :
        Exists(id) =>
            /\ get_escrow_info(Current, id).out = OkOut
            /\ get_escrow_info(Current, id).ret = Rec(id)
C19_KeptStep ==
    \A id \in BountyIds :
        Exists(id) =>
            \A r \in {get_escrow_info(Frame(instance', persistent', balances'), id)} :
                /\ r.out = OkOut
                /\ r.ret.depositor = Rec(id).depositor
                /\ r.ret.amount = Rec(id).amount
                /\ r.ret.deadline = Rec(id).deadline
C19_NeverDeleted ==
    []C19_InfoSucceeds /\ [][persistent' = persistent \/ C19_KeptStep]_vars

\* One record has been released and another refunded, and the clock has
\* run to its end.
C19_Witness ==
    \E id \in BountyIds, other \in BountyIds :
        /\ Exists(id) /\ Rec(id).status = Released
        /\ Exists(other) /\ Rec(other).status = Refunded
        /\ now = MaxTime
        /\ get_escrow_info(Current, id).out = OkOut

\* --------------------------------------------------------------------- C20
\* C20: for an id that has no record, that is, one that was never locked,
\* get_escrow_info and refund (which depends on no caller), at every clock
\* reading, and release_funds by the admin of an initialized contract, each
\* fail with BountyNotFound and change nothing.
C20_UnknownId ==
    \A id \in BountyIds :
        ~Exists(id) =>
            /\ \A r \in {get_escrow_info(Current, id)} :
                  r.out = "BountyNotFound" /\ Unchanged(r) /\ r.st.writes = {}
            /\ \A r \in {refund(Current, now, id)} :
                  r.out = "BountyNotFound" /\ Unchanged(r) /\ r.st.transfers = << >>
            /\ Initialized =>
                  \A contributor \in Contributors :
                      \A r \in {release_funds(Current, StoredAdmin, id, contributor)} :
                          r.out = "BountyNotFound" /\ Unchanged(r) /\ r.st.transfers = << >>

\* An id without a record next to a Locked one, on an initialized contract
\* with funds in custody and the clock past that record's deadline.
C20_Witness ==
    \E id \in BountyIds, other \in BountyIds :
        /\ ~Exists(id) /\ Initialized
        /\ Exists(other) /\ Rec(other).status = Locked /\ now >= Rec(other).deadline
        /\ Custody > 0
        /\ refund(Current, now, id).out = "BountyNotFound"

\* --------------------------------------------------------------------- C26
\* C26: release_funds and refund store the record's new status, Released or
\* Refunded, before they call the transfer. When the token contract is
\* called, the record it finds under the id is no longer Locked; so a
\* release or a refund of the same id made from inside the transfer would
\* fail the status check with FundsNotLocked even without the guard.
C26_Unguarded(seen) == Frame(instance, seen, balances)
C26_StatusBeforeTransfer ==
    \A id \in BountyIds :
        /\ EveryRelease(id, LAMBDA c, r :
              reaches_transfer(r) =>
                 /\ Len(r.st.seen) = 1
                 /\ get(r.st.seen[1], K(id)).status = Released
                 /\ \A contributor \in Contributors :
                       release_funds(C26_Unguarded(r.st.seen[1]), StoredAdmin, id,
                                     contributor).out = "FundsNotLocked"
                 /\ refund(C26_Unguarded(r.st.seen[1]), now, id).out = "FundsNotLocked")
        /\ \A r \in {refund(Current, now, id)} :
              reaches_transfer(r) =>
                 /\ Len(r.st.seen) = 1
                 /\ get(r.st.seen[1], K(id)).status = Refunded
                 /\ \A contributor \in Contributors :
                       release_funds(C26_Unguarded(r.st.seen[1]), StoredAdmin, id,
                                     contributor).out = "FundsNotLocked"
                 /\ refund(C26_Unguarded(r.st.seen[1]), now, id).out = "FundsNotLocked"

\* A Locked record that the admin can release and anybody can refund, with
\* more in custody than its amount, so that a second payout could be made.
C26_Witness ==
    \E id \in BountyIds, contributor \in Contributors :
        /\ Initialized /\ Exists(id) /\ Rec(id).status = Locked
        /\ Custody > Rec(id).amount
        /\ release_funds(Current, StoredAdmin, id, contributor).out = OkOut
        /\ refund(Current, now, id).out = OkOut
        /\ Len(refund(Current, now, id).st.seen) = 1

\* --------------------------------------------------------------------- C27
\* C27 (as stated): before init has succeeded, lock_funds (authorized by its
\* depositor, whatever its amount and deadline), release_funds and
\* get_balance each fail with NotInitialized and change no state.
C27_NotInitializedFirst ==
    ~Initialized =>
        /\ \A id \in BountyIds :
              /\ EveryLock(id, LAMBDA c, d, a, dl, r :
                    require_auth(c, d) => (r.out = "NotInitialized" /\ Unchanged(r)))
              /\ EveryRelease(id, LAMBDA c, r :
                    r.out = "NotInitialized" /\ Unchanged(r))
        /\ get_balance(Current).out = "NotInitialized"

\* --------------------------------------------------------------------- C29
\* The sum of the amounts of the Locked records among `ids`.
RECURSIVE LockedSum(_)
LockedSum(ids) ==
    IF ids = {} THEN 0
    ELSE LET id == CHOOSE i \in ids : TRUE
         IN  (IF Exists(id) /\ Rec(id).status = Locked THEN Rec(id).amount ELSE 0)
             + LockedSum(ids \ {id})

C30_RecordsImplyConfig ==
    /\ has(instance, Admin) <=> has(instance, Token)
    /\ \A id \in BountyIds :
          /\ Exists(id) => (has(instance, Admin) /\ has(instance, Token))
          /\ refund(Current, now, id).out # UnwrapTrap

\* A refund that is due: it gets past its checks to the token lookup and
\* makes its transfer.
C30_Witness ==
    \E id \in BountyIds :
        /\ Exists(id) /\ Rec(id).status = Locked /\ now >= Rec(id).deadline
        /\ has(instance, Token)
        /\ Len(refund(Current, now, id).st.transfers) = 1

\* ----------------------------------------------- program escrow vocabulary
ProgramCustody == program_token[ProgramContract]
ProgramUnchanged(r) ==
    /\ committed(ProgramCurrent, r).data = program_data
    /\ committed(ProgramCurrent, r).token = program_token

\* What the entries of a batch add up to for one recipient.
RECURSIVE Share(_, _, _)
Share(recipients, amounts, a) ==
    IF recipients = << >> THEN 0
    ELSE (IF Head(recipients) = a THEN Head(amounts) ELSE 0)
         + Share(Tail(recipients), Tail(amounts), a)

\* A non-empty batch of positive amounts, one for each recipient.
WellFormed(recipients, amounts) ==
    /\ Len(recipients) = Len(amounts)
    /\ Len(recipients) > 0
    /\ \A i \in DOMAIN amounts : amounts[i] > 0

EveryBatch(P(_, _, _)) ==
    \A recipients \in SeqsUpTo(Recipients, MaxBatch), amounts \in SeqsUpTo(ProgramAmounts, MaxBatch) :
        \A r \in {batch_payout(ProgramCurrent, recipients, amounts)} : P(recipients, amounts, r)

\* The batch has paid each recipient its share and nothing else has moved.
BatchPaid(recipients, amounts, r) ==
    /\ r.out = OkOut
    /\ r.st.data.remaining_balance = program_data.remaining_balance - SumSeq(amounts)
    /\ r.st.data.total_funds = program_data.total_funds
    /\ \A a \in Recipients :
          r.st.token[a] = program_token[a] + Share(recipients, amounts, a)
    /\ r.st.token[ProgramContract] = ProgramCustody - SumSeq(amounts)

\* --------------------------------------------------------------------- C21
\* C21 (as stated): batch_payout of a non-empty list of positive amounts
\* summing to S, on a program with remaining balance R: if S <= R the call
\* succeeds, each recipient receives its amount and the remaining balance
\* becomes R - S; if S > R it fails and nothing changes.
C21_BatchWithinRemaining ==
    EveryBatch(LAMBDA recipients, amounts, r :
        WellFormed(recipients, amounts) =>
            IF SumSeq(amounts) <= program_data.remaining_balance
            THEN BatchPaid(recipients, amounts, r)
            ELSE r.out # OkOut /\ ProgramUnchanged(r))

\* C21 (amended): the batch succeeds, pays each recipient its amount and
\* leaves R - S, exactly when S <= R and the contract holds at least S of
\* the token; when S > R, or when the contract holds less than S (funds were
\* locked that had not been transferred in), the call fails, no recipient
\* receives anything and the remaining balance is still R.
C21_BatchWithinRemainingAndCustody ==
    EveryBatch(LAMBDA recipients, amounts, r :
        WellFormed(recipients, amounts) =>
            IF /\ SumSeq(amounts) <= program_data.remaining_balance
               /\ SumSeq(amounts) <= ProgramCustody
            THEN BatchPaid(recipients, amounts, r)
            ELSE r.out # OkOut /\ ProgramUnchanged(r))

\* More is accounted as remaining than the contract holds: a batch of two
\* entries within the remaining balance pays the first and fails on the
\* second; another batch, within both, succeeds.
C21_Witness ==
    /\ program_data.remaining_balance >= 2
    /\ ProgramCustody = 1
    /\ \E recipients \in SeqsUpTo(Recipients, MaxBatch) :
          /\ Len(recipients) = 2
          /\ batch_payout(ProgramCurrent, recipients, <<1, 1>>).out = TransferTrap
          /\ Len(batch_payout(ProgramCurrent, recipients, <<1, 1>>).st.transfers) = 1
    /\ batch_payout(ProgramCurrent, <<"R1">>, <<1>>).out = OkOut

\* --------------------------------------------------------------------- C22
\* C22: the remaining balance of a program is never negative, and it
\* changes only by going down by the total a successful single_payout or
\* batch_payout has paid out of the contract, or up by the amount of a
\* successful lock_program_funds.
C22_RemainingNonNegative == program_data.remaining_balance >= 0

C22_ByLock ==
    \E amount \in ProgramAmounts :
        /\ lock_program_funds(ProgramCurrent, amount).out = OkOut
        /\ program_data'.remaining_balance = program_data.remaining_balance + amount
        /\ program_token' = program_token

C22_ByPayout ==
    \E r \in {single_payout(ProgramCurrent, recipient, amount) :
                  recipient \in Recipients, amount \in ProgramAmounts}
             \cup {batch_payout(ProgramCurrent, recipients, amounts) :
                  recipients \in SeqsUpTo(Recipients, MaxBatch),
                  amounts \in SeqsUpTo(ProgramAmounts, MaxBatch)} :
        /\ r.out = OkOut
        /\ program_token' = r.st.token
        /\ program_data'.remaining_balance < program_data.remaining_balance
        /\ program_data.remaining_balance - program_data'.remaining_balance
               = ProgramCustody - program_token'[ProgramContract]

C22_RemainingBalance ==
    /\ []C22_RemainingNonNegative
    /\ [][\/ program_data'.remaining_balance = program_data.remaining_balance
          \/ C22_ByLock
          \/ C22_ByPayout]_vars

\* Funds were locked and part of them has been paid out: the remaining
\* balance has gone up and then down, and a payout of all that is left is
\* still possible.
C22_Witness ==
    /\ program_data.remaining_balance > 0
    /\ program_data.remaining_balance < program_data.total_funds
    /\ \E recipient \in Recipients :
          single_payout(ProgramCurrent, recipient, program_data.remaining_balance).out = OkOut

\* --------------------------------------------------------------------- C23
\* C23: batch_payout is all-or-nothing. A batch with an amount that is not
\* positive, a batch whose total exceeds the remaining balance, and a batch
\* one of whose transfers fails all abort the whole call; after any aborted
\* call the remaining balance is unchanged and no recipient, the ones
\* earlier in the list included, has received anything. A call that does
\* not abort has paid every entry.
C23_Fails(recipients, amounts) ==
    \/ \E i \in DOMAIN amounts : amounts[i] <= 0
    \/ SumSeq(amounts) > program_data.remaining_balance
    \/ WellFormed(recipients, amounts) /\ SumSeq(amounts) > ProgramCustody

C23_AllOrNothing ==
    EveryBatch(LAMBDA recipients, amounts, r :
        /\ C23_Fails(recipients, amounts) => r.out # OkOut
        /\ r.out # OkOut => ProgramUnchanged(r)
        /\ r.out = OkOut => BatchPaid(recipients, amounts, r))

\* A recipient has been paid before; now a batch pays its first entry and
\* fails in the transfer of the second, and another batch has a zero amount
\* after a valid entry.
C23_Witness ==
    /\ program_token["R1"] > 0
    /\ \A r \in {batch_payout(ProgramCurrent, <<"R1", "R2">>, <<1, 1>>)} :
          /\ r.out = TransferTrap
          /\ r.st.token["R1"] = program_token["R1"] + 1
    /\ batch_payout(ProgramCurrent, <<"R1", "R2">>, <<1, 0>>).out = AmountPanic

\* --------------------------------------------------------------------- C24
\* C24: batch_payout with a list of recipients and a list of amounts of
\* different lengths, or with empty lists, fails with a validation error
\* before any transfer; the remaining balance and the balances of the
\* recipients are unchanged.
C24_ListsValidated ==
    EveryBatch(LAMBDA recipients, amounts, r :
        (Len(recipients) # Len(amounts) \/ Len(recipients) = 0 \/ Len(amounts) = 0) =>
            /\ r.out \in {LengthPanic, EmptyPanic}
            /\ r.st.transfers = << >>
            /\ ProgramUnchanged(r))

\* The program could pay: a batch of one entry succeeds, while the same
\* entry with a second amount and no second recipient, and the empty
\* batch, are rejected.
C24_Witness ==
    /\ batch_payout(ProgramCurrent, <<"R2">>, <<1>>).out = OkOut
    /\ program_data.remaining_balance >= 2
    /\ batch_payout(ProgramCurrent, <<"R2">>, <<1, 1>>).out = LengthPanic
    /\ batch_payout(ProgramCurrent, << >>, << >>).out = EmptyPanic

\* --------------------------------------------------------------------- C25
\* C25: lock_program_funds with amount > 0 adds exactly amount to both the
\* remaining balance and the total funds (two locks add up) and moves no
\* tokens; no other operation changes the total funds: payouts leave them
\* as they are and they never go down.
C25_LockAdds ==
    \A amount \in ProgramAmounts :
        amount > 0 =>
            \A r \in {lock_program_funds(ProgramCurrent, amount)} :
                /\ r.out = OkOut
                /\ r.st.data.remaining_balance = program_data.remaining_balance + amount
                /\ r.st.data.total_funds = program_data.total_funds + amount
                /\ r.st.transfers = << >>
                /\ r.st.token = program_token
                /\ \A second \in ProgramAmounts :
                      second > 0 =>
                          lock_program_funds(r.st, second).st.data
                              = [total_funds |-> program_data.total_funds + amount + second,
                                 remaining_balance |-> program_data.remaining_balance + amount + second]

C25_PayoutsKeepTotal ==
    /\ \A recipient \in Recipients, amount \in ProgramAmounts :
          committed(ProgramCurrent, single_payout(ProgramCurrent, recipient, amount)).data.total_funds
              = program_data.total_funds
    /\ EveryBatch(LAMBDA recipients, amounts, r :
          committed(ProgramCurrent, r).data.total_funds = program_data.total_funds)

C25_TotalStep ==
    \/ program_data'.total_funds = program_data.total_funds
    \/ \E amount \in ProgramAmounts :
          /\ amount > 0
          /\ program_data' = lock_program_funds(ProgramCurrent, amount).st.data
          /\ program_data'.total_funds = program_data.total_funds + amount
          /\ program_token' = program_token

C25_LockOnlyGrowsTotal ==
    /\ [](C25_LockAdds /\ C25_PayoutsKeepTotal)
    /\ [][C25_TotalStep]_vars

\* Funds were locked twice with nothing in the contract to back the second
\* lock, a payout has been made since, and a further lock is accepted.
C25_Witness ==
    /\ program_data.total_funds >= 2
    /\ program_data.remaining_balance < program_data.total_funds
    /\ program_data.remaining_balance > ProgramCustody
    /\ lock_program_funds(ProgramCurrent, 1).out = OkOut

\* --------------------------------------------------------------------- C28
\* C28: single_payout and batch_payout require every amount to be greater
\* than zero. single_payout with amount 0 or a negative amount aborts with
\* "Amount must be greater than zero", transfers nothing and leaves the
\* remaining balance unchanged; so does a batch that has such an amount in
\* any of its entries.
C28_PositiveAmounts ==
    /\ \A recipient \in Recipients, amount \in ProgramAmounts :
          amount <= 0 =>
              \A r \in {single_payout(ProgramCurrent, recipient, amount)} :
                  /\ r.out = "Amount must be greater than zero"
                  /\ r.st.transfers = << >>
                  /\ ProgramUnchanged(r)
    /\ EveryBatch(LAMBDA recipients, amounts, r :
          (/\ Len(recipients) = Len(amounts)
           /\ \E i \in DOMAIN amounts : amounts[i] <= 0) =>
              /\ r.out = "Amount must be greater than zero"
              /\ r.st.transfers = << >>
              /\ ProgramUnchanged(r))

\* The contract holds locked funds that a payout of 1 can draw on, and a
\* payout of 0 is turned down all the same.
C28_Witness ==
    /\ ProgramCustody >= 1
    /\ single_payout(ProgramCurrent, "R1", 1).out = OkOut
    /\ single_payout(ProgramCurrent, "R1", 0).out = AmountPanic
    /\ batch_payout(ProgramCurrent, <<"R1", "R2">>, <<-1, 1>>).out = AmountPanic

\* --------------------------------------------------------------------- C31
\* C31: in every state reachable by lock_program_funds, single_payout and
\* batch_payout calls, 0 <= remaining balance <= total funds, and total
\* funds minus remaining balance equals the sum of all the amounts that
\* successful payouts have paid out. The recipients hold nothing at the
\* start and receive tokens from payouts only, so what they hold together
\* is that sum.
C31_PaidOut == Held(Recipients)

C31_Accounting ==
    /\ 0 <= program_data.remaining_balance
    /\ program_data.remaining_balance <= program_data.total_funds
    /\ program_data.total_funds - program_data.remaining_balance = C31_PaidOut

\* Both recipients have been paid, funds remain, and part of what remains
\* is not backed by tokens in the contract.
C31_Witness ==
    /\ program_token["R1"] > 0
    /\ program_token["R2"] > 0
    /\ program_data.remaining_balance > 0
    /\ program_data.remaining_balance > ProgramCustody

====
